---------------------------- MODULE Spec2Model ----------------------------
(***************************************************************************)
(* The notebook "Aplicación de Random Projections" as a state machine.     *)
(* The cells run once, top to bottom; pc is the cell (or the place inside  *)
(* a training loop) that runs next.  Matrices are kept by their shape and  *)
(* by what they were computed from; their float entries are not modelled.  *)
(***************************************************************************)
EXTENDS Integers, Sequences, FiniteSets, TLC

VARIABLES
    pc,             \* the cell / loop position that runs next
    files,          \* the pickled files read by the notebook, and its `error` setting
    articulos,      \* training corpus (number of documents)
    labels,         \* training labels, one integer per document
    vectorizer,     \* tfidf_vectorizer: fitted flag and vocabulary size
    tfidf,          \* training document-term matrix
    p, n,           \* the globals p and n (rebound by the test-set cell)
    error, m,       \* distortion error (a rational) and output dimension
    rp,             \* the SparseRandomProjection object
    M_prime,        \* reduced training matrix
    labels_oh,      \* one-hot training labels
    articulos_test, labels_test, tfidf_test, M_prime_test, labels_test_oh,
    hyper,          \* the hyper-parameter globals of the running cell
    sess,           \* the open session: loop counters, weights, last batch, and
                    \* the rows the current epoch has trained on so far
    runlog          \* per training run: the configuration it was built with
                    \* and what it has executed so far

vars == << pc, files, articulos, labels, vectorizer, tfidf, p, n, error, m,
           rp, M_prime, labels_oh, articulos_test, labels_test, tfidf_test,
           M_prime_test, labels_test_oh, hyper, sess, runlog >>

-----------------------------------------------------------------------------
(* Bounds of the model *)

\* largest training corpus of the training specification
MaxDocs == 4
\* largest test corpus
MaxTestDocs == 4
\* largest vocabulary
MaxVocab == 2
\* batch_size of both training cells (256 in the notebook), scaled down so
\* that a batch is a proper part of a corpus of at most MaxDocs documents
BatchSize == 2
\* training_epochs of both training cells (12 in the notebook), scaled down
TrainingEpochs == 2
\* the distinct random draws of the projection matrix
Seeds == {1, 2}

None == "none"
\* a global that no cell has bound yet
Unbound == 0 - 1
NoError == [num |-> 0, den |-> 1]
Tenth == [num |-> 1, den |-> 10]
NoComponents == [rows |-> 0, cols |-> 0, seed |-> 0]

\* corpus sizes: below 3 the vectorizer refuses, at 3 the row-3 norm check fails
DocCounts == 1..MaxDocs
TestDocCounts == 3..MaxTestDocs
\* the corpus sizes of the projector-stage specification: the small ones and
\* the Twenty Newsgroups corpus itself
ScenarioDocCounts == (1..MaxDocs) \cup {11314}
ScenarioVocabSizes == (1..MaxVocab) \cup {28966}

\* label lists: label (b + 7*(i-1)) mod 20 for document i
LabelBases == {0, 19}
LabelLists(len) ==
    { [i \in 1..len |-> (b + 7 * (i - 1)) % 20] : b \in LabelBases }

\* settings of `error` in the cell that computes m; the notebook's is 1/10
ErrorChoices == { [num |-> 1, den |-> 10], [num |-> 1, den |-> 2], [num |-> 9, den |-> 10] }

-----------------------------------------------------------------------------
(* np.log in fixed point: values are integers in units of 1/One *)

One == 2^14
\* ln 2 in units of 1/2^16
Ln2Fine == 45426

RECURSIVE FloorLog2(_)
FloorLog2(x) == IF x < 2 THEN 0 ELSE 1 + FloorLog2(x \div 2)

\* the fractional bits of log2 of y/One (1 <= y/One < 2), most significant
\* first, by repeated squaring; w is the weight of the next bit
RECURSIVE Log2Frac(_, _)
Log2Frac(y, w) ==
    IF w = 0 THEN 0
    ELSE LET y2 == (y * y) \div One
         IN  IF y2 >= 2 * One THEN w + Log2Frac(y2 \div 2, w \div 2)
                              ELSE Log2Frac(y2, w \div 2)

\* np.log(x) for an integer x >= 1, in units of 1/One
LnFix(x) ==
    LET k == FloorLog2(x)
        f == Log2Frac((x * One) \div (2^k), One \div 2)
    IN  (k * Ln2Fine) \div 4 + (f * Ln2Fine) \div (2^16)

\* np.log(docs)/(error**2) as the fraction XNum/XDen
XNum(docs, err) == LnFix(docs) * err.den * err.den
XDen(err) == One * err.num * err.num

\* the smallest integer >= num/den (den > 0)
Ceil(num, den) == IF num % den = 0 THEN num \div den ELSE (num \div den) + 1

\* variant of int(): rounding up
IntRoundUp(num, den) == Ceil(num, den)

\* Python's int() on a float given as a fraction: truncation towards zero
IntTrunc(num, den) ==
    IF num >= 0 THEN num \div den ELSE -((-num) \div den)

\* variant of m: without the +1
MinDimNoMargin(docs, err) == IntTrunc(XNum(docs, err), XDen(err))

\* m=int(np.log(p)/(error**2))+1
MinDim(docs, err) == IntTrunc(XNum(docs, err), XDen(err)) + 1

-----------------------------------------------------------------------------
(* Matrices by shape and provenance *)

NoMatrix == [rows |-> 0, cols |-> 0, of |-> None, by |-> NoComponents, dense |-> FALSE]

Matrix(r, c, of, by, dense) ==
    [rows |-> r, cols |-> c, of |-> of, by |-> by, dense |-> dense]

Transpose(M) == [M EXCEPT !.rows = M.cols, !.cols = M.rows]

ToArray(M) == [M EXCEPT !.dense = TRUE]

\* np.dot(A, B): defined when A's columns are B's rows
DotDefined(A, B) == A.cols = B.rows


-----------------------------------------------------------------------------
(* Initial states: the files on disk, nothing loaded *)

NoProjection == [fitted |-> FALSE, n_components |-> 0, density_inv_sqrt_of |-> 0,
                 components_ |-> NoComponents]

NoHyper == [learning_rate |-> NoError, training_epochs |-> 0, batch_size |-> 0,
            display_step |-> 0, hidden_units |-> 0, n_input |-> 0, n_classes |-> 0,
            logs_path |-> None]

NoSession == [run |-> None, epoch |-> 0, i |-> 0, total_batch |-> 0,
              weights |-> 0, idx |-> <<>>, batch_x |-> <<>>, batch_y |-> <<>>,
              covered |-> {},
              fed |-> [op |-> None, X |-> NoMatrix, Y |-> None]]

Runs == {"reduced", "tfidf"}

NoRun == [built |-> FALSE, config |-> NoHyper, epochs |-> 0, steps |-> 0,
          epoch_steps |-> 0, evals |-> 0, reports |-> 0, finished |-> FALSE]

Blank(f) ==
    /\ pc = "load"
    /\ files = f
    /\ articulos = 0
    /\ labels = <<>>
    /\ vectorizer = [fitted |-> FALSE, vocab |-> 0]
    /\ tfidf = NoMatrix
    /\ p = Unbound
    /\ n = Unbound
    /\ error = NoError
    /\ m = Unbound
    /\ rp = NoProjection
    /\ M_prime = NoMatrix
    /\ labels_oh = <<>>
    /\ articulos_test = 0
    /\ labels_test = <<>>
    /\ tfidf_test = NoMatrix
    /\ M_prime_test = NoMatrix
    /\ labels_test_oh = <<>>
    /\ hyper = NoHyper
    /\ sess = NoSession
    /\ runlog = [r \in Runs |-> NoRun]

\* what the notebook is run on: art_filt.txt / art_filt_labels and
\* art_filt_test.txt / art_filt_test_labels.txt, and the value written for
\* `error`.  A corpus is its number of documents and the number of its terms
\* that pass the vectorizer's document-frequency filter; a label file holds
\* one label per document of its corpus
Files(docCounts, vocabSizes, testCounts, errors) ==
    { [train_docs |-> d, train_vocab |-> v, train_labels |-> l,
       test_docs |-> t, test_labels |-> tl, error |-> e] :
        d \in docCounts, v \in vocabSizes, l \in UNION { LabelLists(k) : k \in docCounts },
        t \in testCounts,
        tl \in UNION { LabelLists(k) : k \in testCounts },
        e \in errors }

WellFormed(f) ==
    /\ Len(f.train_labels) = f.train_docs
    /\ Len(f.test_labels) = f.test_docs

Init ==
    \E f \in Files(DocCounts, 1..MaxVocab, TestDocCounts, {Tenth}) :
        WellFormed(f) /\ Blank(f)

-----------------------------------------------------------------------------
(* Cells 2-9: loading, vectorizing, the projector *)

\* with open(...): articulos, labels = pickle.load(fp)
LoadTrain ==
    /\ pc = "load"
    /\ articulos' = files.train_docs
    /\ labels' = files.train_labels
    /\ pc' = "vectorize"
    /\ UNCHANGED << files, vectorizer, tfidf, p, n, error, m, rp, M_prime, labels_oh,
                    articulos_test, labels_test, tfidf_test, M_prime_test,
                    labels_test_oh, hyper, sess, runlog >>

\* TfidfVectorizer(max_df=0.95, min_df=2): fit_transform raises ValueError when
\* max_df * n_doc < min_df, i.e. 95 * n_doc < 200
VectorizerAccepts(docs) == 95 * docs >= 2 * 100

\* tfidf = tfidf_vectorizer.fit_transform(articulos); p, n = tfidf.shape
VectorizeFit ==
    /\ pc = "vectorize"
    /\ \/ /\ VectorizerAccepts(articulos)
          /\ vectorizer' = [fitted |-> TRUE, vocab |-> files.train_vocab]
          /\ tfidf' = Matrix(articulos, files.train_vocab, "articulos", NoComponents, FALSE)
          /\ p' = articulos
          /\ n' = files.train_vocab
          /\ pc' = "compute_m"
       \/ /\ ~VectorizerAccepts(articulos)
          /\ pc' = "error"
          /\ UNCHANGED << vectorizer, tfidf, p, n >>
    /\ UNCHANGED << files, articulos, labels, error, m, rp, M_prime, labels_oh,
                    articulos_test, labels_test, tfidf_test, M_prime_test,
                    labels_test_oh, hyper, sess, runlog >>

\* error=0.1; m=int(np.log(p)/(error**2))+1
ComputeM ==
    /\ pc = "compute_m"
    /\ error' = files.error
    /\ m' = MinDim(p, error')
    /\ pc' = "fit"
    /\ UNCHANGED << files, articulos, labels, vectorizer, tfidf, p, n, rp, M_prime,
                    labels_oh, articulos_test, labels_test, tfidf_test, M_prime_test,
                    labels_test_oh, hyper, sess, runlog >>

\* variant of fit: a square matrix, ignoring the width of X
ComponentsSquare(n_components, X, seed) ==
    [rows |-> n_components, cols |-> n_components, seed |-> seed]

\* the components_ drawn by SparseRandomProjection.fit(X): n_components rows,
\* one column per column of X
Components(n_components, X, seed) ==
    [rows |-> n_components, cols |-> X.cols, seed |-> seed]

\* density=1/np.sqrt(n); rp=SparseRandomProjection(n_components=m, density=density)
\* rp.fit(tfidf)
FitProjection ==
    /\ pc = "fit"
    /\ \E seed \in Seeds :
          rp' = [fitted |-> TRUE, n_components |-> m, density_inv_sqrt_of |-> n,
                 components_ |-> Components(m, tfidf, seed)]
    /\ pc' = "project"
    /\ UNCHANGED << files, articulos, labels, vectorizer, tfidf, p, n, error, m,
                    M_prime, labels_oh, articulos_test, labels_test, tfidf_test,
                    M_prime_test, labels_test_oh, hyper, sess, runlog >>

\* np.dot(R, X.T): the product's shape, and the R it was computed with
Project(R, X) == Matrix(R.rows, Transpose(X).cols, X.of, R, FALSE)

\* M_prime=np.dot(rp.components_,tfidf.T)
ProjectTrain ==
    /\ pc = "project"
    /\ DotDefined(rp.components_, Transpose(tfidf))
    /\ M_prime' = Project(rp.components_, tfidf)
    /\ pc' = "transpose"
    /\ UNCHANGED << files, articulos, labels, vectorizer, tfidf, p, n, error, m, rp,
                    labels_oh, articulos_test, labels_test, tfidf_test, M_prime_test,
                    labels_test_oh, hyper, sess, runlog >>

\* M_prime=M_prime.T
TransposeTrain ==
    /\ pc = "transpose"
    /\ M_prime' = Transpose(M_prime)
    /\ pc' = "norm"
    /\ UNCHANGED << files, articulos, labels, vectorizer, tfidf, p, n, error, m, rp,
                    labels_oh, articulos_test, labels_test, tfidf_test, M_prime_test,
                    labels_test_oh, hyper, sess, runlog >>

\* the projector stage on its own, on corpora up to the size of Twenty Newsgroups
InitProjector ==
    \E f \in Files(ScenarioDocCounts, ScenarioVocabSizes, {4}, ErrorChoices) :
        WellFormed(f) /\ Blank(f)

NextProjector ==
    \/ LoadTrain
    \/ VectorizeFit
    \/ ComputeM
    \/ FitProjection
    \/ ProjectTrain
    \/ TransposeTrain

SpecProjector == InitProjector /\ [][NextProjector]_vars

\* the whole notebook on the two largest training corpora, one of which the
\* batch size does not divide
InitCoverage ==
    \E f \in Files({MaxDocs, MaxDocs + 1}, {1}, {MaxTestDocs}, {Tenth}) :
        WellFormed(f) /\ Blank(f)

-----------------------------------------------------------------------------
(* Cells 10-16: norm check, one-hot labels, the test set, next_batch *)

\* M[3]: row 3 exists
HasRow3(M) == M.rows > 3

\* np.linalg.norm(M_prime[3].toarray())
CheckNormTrain ==
    /\ pc = "norm"
    /\ \/ /\ HasRow3(M_prime)
          /\ pc' = "onehot"
       \/ /\ ~HasRow3(M_prime)
          /\ pc' = "error"
    /\ UNCHANGED << files, articulos, labels, vectorizer, tfidf, p, n, error, m, rp,
                    M_prime, labels_oh, articulos_test, labels_test, tfidf_test,
                    M_prime_test, labels_test_oh, hyper, sess, runlog >>

\* variant of the one-hot encoding: the 1 written one column to the right
OneHotShifted(rows, labs) ==
    [i \in 1..rows |-> [c \in 0..19 |-> IF c = labs[i] + 1 THEN 1 ELSE 0]]

\* oh = np.zeros((rows, 20)); oh[np.arange(rows), labs] = 1
\* (row i of the array is element i+1 of the sequence; columns are 0..19)
OneHot(rows, labs) ==
    [i \in 1..rows |-> [c \in 0..19 |-> IF c = labs[i] THEN 1 ELSE 0]]

\* labels_oh = np.zeros((M_prime.shape[0], 20)); labels_oh[np.arange(...), labels] = 1
OneHotTrain ==
    /\ pc = "onehot"
    /\ labels_oh' = OneHot(M_prime.rows, labels)
    /\ pc' = "toarray"
    /\ UNCHANGED << files, articulos, labels, vectorizer, tfidf, p, n, error, m, rp,
                    M_prime, articulos_test, labels_test, tfidf_test,
                    M_prime_test, labels_test_oh, hyper, sess, runlog >>

\* M_prime=M_prime.toarray()
ToArrayTrain ==
    /\ pc = "toarray"
    /\ M_prime' = ToArray(M_prime)
    /\ pc' = "load_test"
    /\ UNCHANGED << files, articulos, labels, vectorizer, tfidf, p, n, error, m, rp,
                    labels_oh, articulos_test, labels_test, tfidf_test,
                    M_prime_test, labels_test_oh, hyper, sess, runlog >>

\* variant of transform: a width taken from the new corpus
VectorizerTransformOwnWidth(vec, docs, name) ==
    Matrix(docs, docs, name, NoComponents, FALSE)

\* tfidf_vectorizer.transform(docs): one row per document, one column per
\* term of the fitted vocabulary
VectorizerTransform(vec, docs, name) ==
    Matrix(docs, vec.vocab, name, NoComponents, FALSE)

\* articulos_test, labels_test = pickle.load(fp)
\* tfidf_test = tfidf_vectorizer.transform(articulos_test); p, n = tfidf_test.shape
LoadTest ==
    /\ pc = "load_test"
    /\ articulos_test' = files.test_docs
    /\ labels_test' = files.test_labels
    /\ tfidf_test' = VectorizerTransform(vectorizer, files.test_docs, "articulos_test")
    /\ p' = tfidf_test'.rows
    /\ n' = tfidf_test'.cols
    /\ pc' = "project_test"
    /\ UNCHANGED << files, articulos, labels, vectorizer, tfidf, error, m, rp,
                    M_prime, labels_oh, M_prime_test, labels_test_oh, hyper, sess,
                    runlog >>

\* variant of the test-set cell: the projection is fitted again on tfidf_test
ProjectTestRefit ==
    /\ pc = "project_test"
    /\ \E seed \in Seeds :
          /\ rp' = [rp EXCEPT !.components_ = Components(m, tfidf_test, seed)]
          /\ M_prime_test' = ToArray(Transpose(Project(rp'.components_, tfidf_test)))
    /\ pc' = "onehot_test"
    /\ UNCHANGED << files, articulos, labels, vectorizer, tfidf, p, n, error, m,
                    M_prime, labels_oh, articulos_test, labels_test, tfidf_test,
                    labels_test_oh, hyper, sess, runlog >>

\* M_prime_test=np.dot(rp.components_,tfidf_test.T)
\* M_prime_test=M_prime_test.T.toarray()
\* print(np.linalg.norm(M_prime_test[3]))
ProjectTest ==
    /\ pc = "project_test"
    /\ DotDefined(rp.components_, Transpose(tfidf_test))
    /\ M_prime_test' = ToArray(Transpose(Project(rp.components_, tfidf_test)))
    /\ \/ /\ HasRow3(M_prime_test')
          /\ pc' = "onehot_test"
       \/ /\ ~HasRow3(M_prime_test')
          /\ pc' = "error"
    /\ UNCHANGED << files, articulos, labels, vectorizer, tfidf, p, n, error, m, rp,
                    M_prime, labels_oh, articulos_test, labels_test, tfidf_test,
                    labels_test_oh, hyper, sess, runlog >>

\* labels_test_oh = np.zeros((M_prime_test.shape[0], 20)); labels_test_oh[..., labels_test] = 1
OneHotTest ==
    /\ pc = "onehot_test"
    /\ labels_test_oh' = OneHot(M_prime_test.rows, labels_test)
    /\ pc' = "def_next_batch"
    /\ UNCHANGED << files, articulos, labels, vectorizer, tfidf, p, n, error, m, rp,
                    M_prime, labels_oh, articulos_test, labels_test, tfidf_test,
                    M_prime_test, hyper, sess, runlog >>

\* def next_batch(...); tfidf=tfidf.toarray(); tfidf_test=tfidf_test.toarray()
DefineNextBatch ==
    /\ pc = "def_next_batch"
    /\ tfidf' = ToArray(tfidf)
    /\ tfidf_test' = ToArray(tfidf_test)
    /\ pc' = "graph_reduced"
    /\ UNCHANGED << files, articulos, labels, vectorizer, p, n, error, m, rp,
                    M_prime, labels_oh, articulos_test, labels_test,
                    M_prime_test, labels_test_oh, hyper, sess, runlog >>

\* np.arange(lo, hi)
Arange(lo, hi) == [k \in 1..(hi - lo) |-> lo + k - 1]

Range(seq) == { seq[k] : k \in 1..Len(seq) }

RECURSIVE Orderings(_)
Orderings(S) ==
    IF S = {} THEN { <<>> }
    ELSE UNION { { <<x>> \o t : t \in Orderings(S \ {x}) } : x \in S }

\* variant of the shuffle: indices drawn with replacement
Resample(idx) == [1..Len(idx) -> Range(idx)]

\* np.random.shuffle(idx): idx becomes any reordering of its elements
Shuffle(idx) == Orderings(Range(idx))

\* variant of the slice: the whole of idx
TakeAll(seq, num) == seq

\* idx[:num]
Take(seq, num) == SubSeq(seq, 1, IF num < Len(seq) THEN num ELSE Len(seq))

\* variant of next_batch: the labels are taken in their stored order
next_batchUnpaired(num, data, labs) ==
    { [idx |-> ix,
       data_shuffle |-> [k \in 1..Len(ix) |-> [of |-> data.of, by |-> data.by, row |-> ix[k]]],
       labels_shuffle |-> [k \in 1..Len(ix) |-> labs[k]]] :
        ix \in { Take(sh, num) : sh \in Shuffle(Arange(0, data.rows)) } }

\* next_batch(num, data, labels): every (data_shuffle, labels_shuffle) it can
\* return; a data row is named by its index in data
next_batch(num, data, labs) ==
    { [idx |-> ix,
       data_shuffle |-> [k \in 1..Len(ix) |-> [of |-> data.of, by |-> data.by, row |-> ix[k]]],
       labels_shuffle |-> [k \in 1..Len(ix) |-> labs[ix[k] + 1]]] :
        ix \in { Take(sh, num) : sh \in Shuffle(Arange(0, data.rows)) } }

-----------------------------------------------------------------------------
(* Cells 17 and 18: the two training runs *)

Hundredth == [num |-> 1, den |-> 100]

\* the parameters of the first training cell (inputs: M_prime)
HyperReduced(data) ==
    [learning_rate |-> Hundredth, training_epochs |-> TrainingEpochs,
     batch_size |-> BatchSize, display_step |-> 1, hidden_units |-> 30,
     n_input |-> data.cols, n_classes |-> 20, logs_path |-> "log_dir"]

\* variant of the second training cell: another learning rate
HyperTfidfOtherRate(data) ==
    [learning_rate |-> Tenth, training_epochs |-> TrainingEpochs,
     batch_size |-> BatchSize, display_step |-> 1, hidden_units |-> 5,
     n_input |-> data.cols, n_classes |-> 20, logs_path |-> "log_dir_tfidf"]

\* the parameters of the second training cell (inputs: tfidf)
HyperTfidf(data) ==
    [learning_rate |-> Hundredth, training_epochs |-> TrainingEpochs,
     batch_size |-> BatchSize, display_step |-> 1, hidden_units |-> 5,
     n_input |-> data.cols, n_classes |-> 20, logs_path |-> "log_dir_tfidf"]

\* what a run trains on, evaluates on, and sizes its epochs by
TrainData(r) == IF r = "reduced" THEN M_prime ELSE tfidf
TestData(r) == IF r = "reduced" THEN M_prime_test ELSE tfidf_test
\* variant of total_batch: one batch more per epoch
TotalBatchPlusOne == (M_prime.rows \div hyper.batch_size) + 1

\* total_batch = int(M_prime.shape[0]/batch_size), in both cells
TotalBatch == M_prime.rows \div hyper.batch_size

Log(r, field, value) == [runlog EXCEPT ![r][field] = value]

UnchangedData ==
    UNCHANGED << files, articulos, labels, vectorizer, tfidf, p, n, error, m, rp,
                 M_prime, labels_oh, articulos_test, labels_test, tfidf_test,
                 M_prime_test, labels_test_oh >>

\* parameters and graph construction of a training cell.  The names the
\* previous cell left bound (epoch, i, batch_x, batch_y and its closed
\* session) are never read again before they are rebound, and are dropped here
BuildGraph(r, at, h) ==
    /\ pc = at
    /\ hyper' = h
    /\ runlog' = [runlog EXCEPT ![r].built = TRUE, ![r].config = h]
    /\ sess' = NoSession
    /\ pc' = "open_session"
    /\ UnchangedData

\* with tf.Session() as sess: sess.run(init)
\* (pc stays inside the cell; sess.run names the run)
OpenSession(r) ==
    /\ pc = "open_session"
    /\ runlog[r].built /\ ~runlog[r].finished
    /\ r = "tfidf" => runlog["reduced"].finished
    /\ sess' = [NoSession EXCEPT !.run = r]
    /\ pc' = "epoch"
    /\ UNCHANGED << hyper, runlog >>
    /\ UnchangedData

\* for epoch in range(training_epochs): avg_cost = 0.; total_batch = ...
EpochHead(r) ==
    /\ pc = "epoch"
    /\ sess.run = r
    /\ \/ /\ sess.epoch < hyper.training_epochs
          /\ sess' = [sess EXCEPT !.total_batch = TotalBatch, !.i = 0, !.covered = {}]
          /\ runlog' = Log(r, "epoch_steps", 0)
          /\ pc' = "batch"
       \/ /\ ~(sess.epoch < hyper.training_epochs)
          /\ pc' = "finished"
          /\ UNCHANGED << sess, runlog >>
    /\ UNCHANGED hyper
    /\ UnchangedData

\* for i in range(total_batch): batch_x, batch_y = next_batch(batch_size, data, labels_oh)
\*     sess.run([train_op, loss_op], feed_dict={Y: batch_y, X: batch_x})
BatchStep(r) ==
    /\ pc = "batch"
    /\ sess.run = r
    /\ \/ /\ sess.i < sess.total_batch
          /\ \E b \in next_batch(hyper.batch_size, TrainData(r), labels_oh) :
                sess' = [sess EXCEPT !.idx = b.idx,
                                     !.batch_x = b.data_shuffle,
                                     !.batch_y = b.labels_shuffle,
                                     !.fed = [op |-> "train_op", X |-> TrainData(r),
                                              Y |-> "labels_oh"],
                                     !.covered = @ \cup Range(b.idx),
                                     !.weights = @ + 1,
                                     !.i = @ + 1]
          /\ runlog' = [runlog EXCEPT ![r].steps = @ + 1, ![r].epoch_steps = @ + 1]
          /\ pc' = "batch"
       \/ /\ ~(sess.i < sess.total_batch)
          /\ pc' = "display"
          /\ UNCHANGED << sess, runlog >>
    /\ UNCHANGED hyper
    /\ UnchangedData

\* variant of the per-epoch evaluation: it runs train_op as well
DisplayAlsoTrains(r) ==
    /\ pc = "display"
    /\ sess.run = r
    /\ IF sess.epoch % hyper.display_step = 0
          THEN /\ sess' = [sess EXCEPT !.fed = [op |-> "loss_op", X |-> TestData(r),
                                                 Y |-> "labels_test_oh"],
                                        !.weights = @ + 1,
                                        !.epoch = @ + 1]
               /\ runlog' = [runlog EXCEPT ![r].evals = @ + 1, ![r].epochs = @ + 1]
          ELSE /\ sess' = [sess EXCEPT !.epoch = @ + 1]
               /\ runlog' = [runlog EXCEPT ![r].epochs = @ + 1]
    /\ pc' = "epoch"
    /\ UNCHANGED hyper
    /\ UnchangedData

\* if epoch % display_step == 0:
\*     sess.run([merged_summary_op, loss_op, acc_op], feed_dict={X: test, Y: labels_test_oh})
\*     print("Epoch:", ...)
Display(r) ==
    /\ pc = "display"
    /\ sess.run = r
    /\ IF sess.epoch % hyper.display_step = 0
          THEN /\ sess' = [sess EXCEPT !.fed = [op |-> "loss_op", X |-> TestData(r),
                                                 Y |-> "labels_test_oh"],
                                        !.epoch = @ + 1]
               /\ runlog' = [runlog EXCEPT ![r].evals = @ + 1, ![r].epochs = @ + 1]
          ELSE /\ sess' = [sess EXCEPT !.epoch = @ + 1]
               /\ runlog' = [runlog EXCEPT ![r].epochs = @ + 1]
    /\ pc' = "epoch"
    /\ UNCHANGED hyper
    /\ UnchangedData

\* print("Optimization Finished!"); print("Accuracy:", accuracy.eval({X: test, Y: labels_test_oh}))
\* the session closes and the cell ends
FinalAccuracy(r, next) ==
    /\ pc = "finished"
    /\ sess.run = r
    /\ sess' = [sess EXCEPT !.fed = [op |-> "accuracy", X |-> TestData(r),
                                     Y |-> "labels_test_oh"]]
    /\ runlog' = [runlog EXCEPT ![r].reports = @ + 1, ![r].finished = TRUE]
    /\ pc' = next
    /\ UNCHANGED hyper
    /\ UnchangedData

BuildGraphReduced == BuildGraph("reduced", "graph_reduced", HyperReduced(M_prime))
OpenSessionReduced == OpenSession("reduced")
EpochHeadReduced == EpochHead("reduced")
BatchStepReduced == BatchStep("reduced")
DisplayReduced == Display("reduced")
FinalAccuracyReduced == FinalAccuracy("reduced", "graph_tfidf")

BuildGraphTfidf == BuildGraph("tfidf", "graph_tfidf", HyperTfidf(tfidf))
OpenSessionTfidf == OpenSession("tfidf")
EpochHeadTfidf == EpochHead("tfidf")
BatchStepTfidf == BatchStep("tfidf")
DisplayTfidf == Display("tfidf")
FinalAccuracyTfidf == FinalAccuracy("tfidf", "done")

Next ==
    \/ LoadTrain
    \/ VectorizeFit
    \/ ComputeM
    \/ FitProjection
    \/ ProjectTrain
    \/ TransposeTrain
    \/ CheckNormTrain
    \/ OneHotTrain
    \/ ToArrayTrain
    \/ LoadTest
    \/ ProjectTest
    \/ OneHotTest
    \/ DefineNextBatch
    \/ BuildGraphReduced
    \/ OpenSessionReduced
    \/ EpochHeadReduced
    \/ BatchStepReduced
    \/ DisplayReduced
    \/ FinalAccuracyReduced
    \/ BuildGraphTfidf
    \/ OpenSessionTfidf
    \/ EpochHeadTfidf
    \/ BatchStepTfidf
    \/ DisplayTfidf
    \/ FinalAccuracyTfidf

Spec == Init /\ [][Next]_vars

SpecCoverage == InitCoverage /\ [][Next]_vars

-----------------------------------------------------------------------------
(* Claims about the projector stage, checked under SpecProjector *)

Computed == m # Unbound

\* C1: for every training document count p >= 2 and every error 0 < eps < 1,
\* the computed m = int(ln(p)/eps^2) + 1 satisfies m >= ln(p)/eps^2.
C1_DimSatisfiesBound ==
    (Computed /\ tfidf.rows >= 2 /\ error.num < error.den)
        => m * XDen(error) >= XNum(tfidf.rows, error)

C1_Witness ==
    /\ Computed
    /\ tfidf.rows = 4
    /\ error = [num |-> 1, den |-> 2]
    /\ XNum(tfidf.rows, error) % XDen(error) # 0

\* C2 as stated: m is ceil(ln(p)/eps^2) + 1, also when ln(p)/eps^2 is not an
\* integer.
C2_CeilPlusOne ==
    Computed => m = Ceil(XNum(tfidf.rows, error), XDen(error)) + 1

\* C2 amended: m is floor(ln(p)/eps^2) + 1, the smallest integer strictly
\* greater than ln(p)/eps^2; when ln(p)/eps^2 is not an integer this is
\* ceil(ln(p)/eps^2) itself, with no further margin.
C2_FloorPlusOne ==
    Computed =>
        LET xn == XNum(tfidf.rows, error)
            xd == XDen(error)
        IN  /\ (m - 1) * xd <= xn
            /\ xn < m * xd
            /\ (xn % xd # 0) => m = Ceil(xn, xd)
            /\ (xn % xd = 0) => m = Ceil(xn, xd) + 1

C2_Witness ==
    /\ Computed
    /\ tfidf.rows = 3
    /\ error = Tenth
    /\ XNum(tfidf.rows, error) % XDen(error) # 0

\* C3: with p = 11314 training documents and eps = 0.1, 933 < ln(p)/eps^2 < 934,
\* m is 934, R has shape 934 x 28966 and the reduced training matrix has
\* shape 11314 x 934.
C3_Scenario ==
    (Computed /\ tfidf.rows = 11314 /\ error = Tenth) =>
        /\ 933 * XDen(error) < XNum(tfidf.rows, error)
        /\ XNum(tfidf.rows, error) < 934 * XDen(error)
        /\ m = 934
        /\ (rp.fitted /\ tfidf.cols = 28966) =>
              (rp.components_.rows = 934 /\ rp.components_.cols = 28966)
        /\ pc = "norm" => (M_prime.rows = 11314 /\ M_prime.cols = 934)

C3_Witness ==
    /\ pc = "norm"
    /\ tfidf.rows = 11314
    /\ tfidf.cols = 28966
    /\ error = Tenth
    /\ rp.fitted

\* C4: when the document count or the vocabulary size is degenerate (<= 1) the
\* projector stage fails with an error: no state is reached in which m has
\* been produced and R has been built from it.
C4_DegenerateFailsFast ==
    (files.train_docs <= 1 \/ files.train_vocab <= 1) => ~(Computed /\ rp.fitted)

-----------------------------------------------------------------------------
(* Claims about the whole notebook, checked under Spec *)

Projected(M) == M # NoMatrix

\* C5: R is generated once, by the fit against the training matrix, and is
\* never regenerated or changed afterwards; the training and the test
\* reduction are computed with that same R.
C5_ProjectionFixed ==
    /\ [][rp.fitted => rp' = rp]_vars
    /\ [][rp' # rp => (pc = "fit" /\ ~rp.fitted /\ rp'.fitted)]_vars
    /\ [](Projected(M_prime) => M_prime.by = rp.components_)
    /\ [](Projected(M_prime_test) =>
            (M_prime_test.by = rp.components_ /\ M_prime_test.by = M_prime.by))

C5_Witness ==
    /\ pc = "done"
    /\ rp.fitted
    /\ rp.components_.seed = 2
    /\ M_prime.by = rp.components_
    /\ M_prime_test.by = rp.components_

\* C6: R has exactly n columns, n the vocabulary size fixed by fitting the
\* vectorizer on the training corpus; the test matrix has n columns too, so
\* both products are defined and the reduced matrices are p x m and q x m.
C6_ShapeCompatible ==
    /\ rp.fitted => (rp.components_.cols = vectorizer.vocab /\ rp.components_.rows = m)
    /\ vectorizer.fitted => tfidf.cols = vectorizer.vocab
    /\ tfidf_test # NoMatrix =>
          /\ tfidf_test.cols = vectorizer.vocab
          /\ tfidf_test.rows = articulos_test
          /\ DotDefined(rp.components_, Transpose(tfidf_test))
    /\ rp.fitted => DotDefined(rp.components_, Transpose(tfidf))
    /\ (Projected(M_prime) /\ pc # "transpose") =>
          (M_prime.rows = articulos /\ M_prime.cols = m)
    /\ Projected(M_prime_test) =>
          /\ M_prime_test.rows = articulos_test
          /\ M_prime_test.cols = m
          /\ M_prime_test.cols = M_prime.cols

C6_Witness ==
    /\ Projected(M_prime_test)
    /\ M_prime_test.rows = 3
    /\ M_prime.rows = 4
    /\ vectorizer.vocab = 2

Distinct(seq) == \A j, k \in 1..Len(seq) : j # k => seq[j] # seq[k]

\* C7: every call next_batch(num, data, labels) with num <= len(data) returns
\* exactly num samples, whose row indices are pairwise distinct and lie in
\* 0..len(data)-1: a training batch has batch_size rows and repeats no document.
C7_BatchWithoutReplacement ==
    (sess.weights > 0 /\ hyper.batch_size <= TrainData(sess.run).rows) =>
        /\ Len(sess.batch_x) = hyper.batch_size
        /\ Len(sess.batch_y) = hyper.batch_size
        /\ Len(sess.idx) = hyper.batch_size
        /\ Distinct(sess.idx)
        /\ \A k \in 1..Len(sess.idx) : sess.idx[k] \in 0..(TrainData(sess.run).rows - 1)
        /\ \A k \in 1..Len(sess.batch_x) : sess.batch_x[k].row = sess.idx[k]
        /\ Distinct(sess.batch_x)

C7_Witness ==
    /\ sess.run = "tfidf"
    /\ sess.weights = 3
    /\ sess.idx = << 3, 0 >>

\* C8: a run executes exactly training_epochs epochs; each epoch performs
\* exactly floor(p_train / batch_size) training steps and is followed by exactly
\* one evaluation on the test set before the next epoch starts; the final
\* accuracy is reported once, after the last epoch's evaluation, and the run
\* then does nothing more.
C8_EpochsAndEvaluations ==
    /\ [](\A r \in Runs :
            LET log == runlog[r]
                perEpoch == TrainData(r).rows \div log.config.batch_size
            IN  log.built =>
                  /\ log.epochs <= log.config.training_epochs
                  /\ log.evals = log.epochs
                  /\ log.reports = (IF log.finished THEN 1 ELSE 0)
                  /\ log.finished =>
                        /\ log.epochs = log.config.training_epochs
                        /\ log.steps = log.config.training_epochs * perEpoch
                  /\ (sess.run = r /\ pc = "display") =>
                        /\ log.epoch_steps = perEpoch
                        /\ log.steps = (log.epochs + 1) * perEpoch
                  /\ (sess.run = r /\ pc = "epoch") => log.steps = log.epochs * perEpoch
                  /\ (sess.run = r /\ pc = "batch") => log.epoch_steps <= perEpoch)
    /\ [][\A r \in Runs : runlog[r].finished => runlog'[r] = runlog[r]]_vars
    /\ [][\A r \in Runs : runlog'[r].epochs # runlog[r].epochs =>
             runlog'[r].evals = runlog[r].evals + 1]_vars

C8_Witness ==
    /\ pc = "done"
    /\ runlog["reduced"].finished
    /\ runlog["tfidf"].finished
    /\ runlog["tfidf"].steps = TrainingEpochs * (4 \div BatchSize)
    /\ runlog["tfidf"].steps > 0
    /\ runlog["reduced"].evals = TrainingEpochs

BothBuilt == runlog["reduced"].built /\ runlog["tfidf"].built

\* C9 as stated: the two classifiers have identical hidden-layer width, number
\* of classes, learning rate, epoch count and batch size.
C9_SameConfiguration ==
    BothBuilt =>
        LET a == runlog["reduced"].config
            b == runlog["tfidf"].config
        IN  /\ a.hidden_units = b.hidden_units
            /\ a.n_classes = b.n_classes
            /\ a.learning_rate = b.learning_rate
            /\ a.training_epochs = b.training_epochs
            /\ a.batch_size = b.batch_size

\* C9 amended: the two classifiers have identical number of classes, learning
\* rate, epoch count, batch size and display step; they differ in the input
\* width (columns of M_prime against columns of tfidf) and in the hidden-layer
\* width, 30 units on the reduced representation and 5 on TF-IDF.
C9_SameTrainingDifferentWidth ==
    BothBuilt =>
        LET a == runlog["reduced"].config
            b == runlog["tfidf"].config
        IN  /\ a.n_classes = b.n_classes
            /\ a.learning_rate = b.learning_rate
            /\ a.training_epochs = b.training_epochs
            /\ a.batch_size = b.batch_size
            /\ a.display_step = b.display_step
            /\ a.hidden_units = 30
            /\ b.hidden_units = 5
            /\ a.n_input = M_prime.cols
            /\ b.n_input = tfidf.cols

C9_Witness ==
    /\ BothBuilt
    /\ pc = "done"
    /\ runlog["tfidf"].config.n_input = 2

RECURSIVE RowSum(_, _)
RowSum(row, c) == IF c < 0 THEN 0 ELSE row[c] + RowSum(row, c - 1)

\* np.argmax: the first index of the largest entry
ArgMax(row) ==
    CHOOSE c \in DOMAIN row :
        /\ \A d \in DOMAIN row : row[d] <= row[c]
        /\ \A d \in DOMAIN row : d < c => row[d] < row[c]

IsOneHotOf(oh, labs, M) ==
    /\ Len(oh) = M.rows
    /\ Len(oh) = Len(labs)
    /\ \A i \in 1..Len(oh) :
          labs[i] \in 0..19 =>
              /\ DOMAIN oh[i] = 0..19
              /\ oh[i][labs[i]] = 1
              /\ \A c \in 0..19 : c # labs[i] => oh[i][c] = 0
              /\ RowSum(oh[i], 19) = 1
              /\ ArgMax(oh[i]) = labs[i]

\* C10: row i of labels_oh (labels_test_oh) has width 20, a 1 at column
\* labels[i] and 0 elsewhere, so it sums to 1 and its argmax is labels[i]; the
\* matrix has one row per row of the corresponding reduced matrix.
C10_OneHotLabels ==
    /\ labels_oh # <<>> => IsOneHotOf(labels_oh, labels, M_prime)
    /\ labels_test_oh # <<>> => IsOneHotOf(labels_test_oh, labels_test, M_prime_test)

C10_Witness ==
    /\ labels_oh # <<>>
    /\ labels_test_oh # <<>>
    /\ labels[1] = 19
    /\ labels[3] = 13
    /\ labels_test[1] = 0
    /\ labels_test[4] = 1

-----------------------------------------------------------------------------
(* Claims about sampling and about what training touches *)

AllRows(M) == 0..(M.rows - 1)

EpochComplete == pc = "display"

\* C11: an epoch need not cover the training set.  Its batches are drawn by
\* independent shuffles, so an epoch can complete with some document in none
\* of its batches (the witness); and it draws floor(p/batch_size)*batch_size
\* samples at most, fewer than p whenever batch_size does not divide p, so
\* that then some document is always left out.
C11_CoverageNotGuaranteed ==
    sess.run \in Runs =>
        LET data == TrainData(sess.run)
            bs == hyper.batch_size
        IN  /\ sess.covered \subseteq AllRows(data)
            /\ Cardinality(sess.covered) <= sess.i * bs
            /\ sess.i <= data.rows \div bs
            /\ sess.i * bs <= data.rows
            /\ (EpochComplete /\ data.rows % bs # 0) =>
                  /\ sess.i * bs < data.rows
                  /\ sess.covered # AllRows(data)

C11_Witness ==
    /\ EpochComplete
    /\ sess.run = "reduced"
    /\ sess.i = sess.total_batch
    /\ sess.i = 2
    /\ M_prime.rows = 4
    /\ M_prime.rows % hyper.batch_size = 0
    /\ sess.covered = {0, 1}

\* row i of a matrix, as next_batch names it
RowOf(data, i) == [of |-> data.of, by |-> data.by, row |-> i]

BatchDrawn == sess.run \in Runs /\ sess.idx # <<>>

\* C12: next_batch keeps samples and labels paired and leaves its inputs
\* untouched.  Every position k of the batch a training step was fed holds
\* data[i] and labels[i] for one and the same index i; the data argument
\* (M_prime or tfidf) has as many rows as labels_oh; and no step of the batch
\* loop changes M_prime, tfidf or labels_oh.
C12_PairedAndUntouched ==
    /\ [](BatchDrawn =>
            LET data == TrainData(sess.run)
            IN  /\ data.rows = Len(labels_oh)
                /\ Len(sess.batch_x) = Len(sess.batch_y)
                /\ Len(sess.batch_x) = Len(sess.idx)
                /\ \A k \in 1..Len(sess.batch_x) :
                      \E i \in AllRows(data) :
                          /\ sess.batch_x[k] = RowOf(data, i)
                          /\ sess.batch_y[k] = labels_oh[i + 1])
    /\ [][pc = "batch" =>
            /\ M_prime' = M_prime
            /\ tfidf' = tfidf
            /\ labels_oh' = labels_oh]_vars

C12_Witness ==
    /\ pc = "batch"
    /\ sess.run = "tfidf"
    /\ sess.idx = << 3, 1 >>
    /\ sess.batch_x = << RowOf(tfidf, 3), RowOf(tfidf, 1) >>
    /\ sess.batch_y = << labels_oh[4], labels_oh[2] >>
    /\ labels_oh[4] # labels_oh[2]
    /\ labels_oh[4] # labels_oh[1]

\* the positions of the two training cells
TrainingPcs == {"open_session", "epoch", "batch", "display", "finished", "graph_tfidf"}

\* C13: the network parameters change only in training steps on training
\* batches.  Within a session the weights change only by a step of the batch
\* loop, which runs train_op on rows of the training matrix and on labels_oh;
\* the per-epoch evaluation and the final accuracy leave them as they are; no
\* row of the test matrix is fed to train_op; and M_prime_test, tfidf_test and
\* labels_test_oh are the same after every step of both training cells.
C13_ParametersChangeOnlyInTraining ==
    /\ [][(sess.run \in Runs /\ sess'.run = sess.run /\ sess'.weights # sess.weights) =>
            /\ pc = "batch"
            /\ sess'.weights = sess.weights + 1
            /\ sess'.fed.op = "train_op"
            /\ sess'.fed.X = TrainData(sess.run)
            /\ sess'.fed.Y = "labels_oh"]_vars
    /\ [][(pc \in {"display", "finished"}) => (sess'.weights = sess.weights)]_vars
    /\ [][(sess'.fed.op \in {"loss_op", "accuracy"}) => (sess'.weights = sess.weights)]_vars
    /\ [](sess.fed.op = "train_op" =>
            /\ sess.fed.X # TestData(sess.run)
            /\ sess.fed.Y # "labels_test_oh"
            /\ \A k \in 1..Len(sess.batch_x) :
                  /\ sess.batch_x[k] \in { RowOf(TrainData(sess.run), i) :
                                              i \in AllRows(TrainData(sess.run)) }
                  /\ sess.batch_x[k] \notin { RowOf(TestData(sess.run), i) :
                                                 i \in AllRows(TestData(sess.run)) })
    /\ [][(pc \in TrainingPcs) =>
            /\ M_prime_test' = M_prime_test
            /\ tfidf_test' = tfidf_test
            /\ labels_test_oh' = labels_test_oh]_vars

C13_Witness ==
    /\ pc = "done"
    /\ sess.run = "tfidf"
    /\ sess.fed = [op |-> "accuracy", X |-> tfidf_test, Y |-> "labels_test_oh"]
    /\ runlog["tfidf"].evals = TrainingEpochs
    /\ runlog["tfidf"].reports = 1
    /\ sess.weights = runlog["tfidf"].steps
    /\ sess.weights = TrainingEpochs * TotalBatch
    /\ sess.weights > 0

=============================================================================
